---- MODULE Spec2Model ----
(***************************************************************************)
(* Session lifecycle of the GEO analyzer front end.                        *)
(*                                                                         *)
(* Two root components track an analysis session: App (App.tsx, with the   *)
(* history sidebar) and Home (pages/home.tsx).  Both render the            *)
(* AnalysisProgress component, which polls the status endpoint through     *)
(* two cached queries (status, results) keyed by the session id.           *)
(*                                                                         *)
(* React state is modelled as it is after a commit: the state updates a    *)
(* handler or an async continuation makes in one turn of the event loop    *)
(* are batched (React 18), then the component tree is rendered and the     *)
(* effects whose dependencies changed run; the updates they make are       *)
(* rendered again until nothing changes.  Every action below is one turn   *)
(* of the event loop: a click, a network response or a timer tick.         *)
(***************************************************************************)
EXTENDS Integers, Sequences, FiniteSets, TLC

\* Session ids the backend hands out.
SessionIds == {"s1", "s2"}

\* null (App's selectedSessionId, analysisResults; Home's results).
Null == "null"

\* Home's cleared session id, the empty string.
Empty == ""

\* In-flight runs of fetchExistingResults / handleRecentAnalysisSelect.
MaxProbes == 2

\* Saturation bound of the per-lifetime history counters.
MaxCount == 2

\* How many times a session id is installed or cleared in one run.
MaxLifetimes == 2

\* useQuery({ retry: 3 }): a failed fetch is retried while failureCount < 3.
RetryLimit == 3

\* progress values a status body may carry.
ProgressVals == {10, 55}

\* status values of analysisStatusSchema.
Lifecycles == {"running", "completed", "error"}

VARIABLES
  page,               \* which root component is mounted: "App" or "Home"
  selectedSessionId,  \* App state
  analysisResults,    \* App state: Null, or the bundle (named by the session it was fetched for)
  isAnalyzing,        \* App state
  isFetchingResults,  \* App state
  viewState,          \* Home state
  sessionId,          \* Home state
  results,            \* Home state
  probes,             \* in-flight async functions (historical loads), by slot
  showError,          \* AnalysisProgress state
  statusQ,            \* query cache: ["/api/analysis/status", sid]
  resultsQ,           \* query cache: ["/api/results", sid]
  creating,           \* AnalysisForm: POST /api/analysis/run in flight
  reanalyzing,        \* ReanalyzeButton: POST /api/reanalyze-with-same-prompts in flight
  origin,             \* history: how the current session id was installed
  nCompleted,         \* history: completion callbacks / completed loads in this lifetime
  nFailed,            \* history: failure notifications (toasts) in this lifetime
  statusAsked,        \* history: a status request was issued for the current id in this lifetime
  resultsAsked,       \* history: a results request was issued for the current id in this lifetime
  lifetimes,          \* history: session ids installed or cleared so far
  resultsOk,          \* history: the historical load of this lifetime got its bundle
  known,              \* session ids this client has met (created for it or picked from a list)
  staleKeys,          \* query cache: keys of the history and list queries marked stale
  reanalyzeFailed,    \* history: the step just taken was a failed re-analysis request
  selectedBrand,      \* App: the brand of the selector and the sidebar, or Null
  table,              \* PromptsTable: its responses prop, currentPage and searchTerm
  budget              \* exploration: how many lifetimes this run may use

appVars == <<page, selectedSessionId, analysisResults, isAnalyzing, isFetchingResults,
          viewState, sessionId, results, probes, showError, statusQ, resultsQ,
          creating, reanalyzing, origin, nCompleted, nFailed, statusAsked,
          resultsAsked, lifetimes, resultsOk, known, staleKeys,
          reanalyzeFailed, selectedBrand, budget>>

vars == <<appVars, table>>

\* The controller state a user sees.
ctlVars == <<selectedSessionId, analysisResults, isAnalyzing, isFetchingResults,
             viewState, sessionId, results, showError>>

Slots == 1..MaxProbes

\* Brand names the server's lists carry.
Brands == {"b1", "b2"}

FreeProbe == [sid |-> Null, stage |-> "free", cur |-> FALSE]

EmptyQuery == [data |-> "none", progress |-> 0, error |-> FALSE, attempt |-> 0]

\* The whole state as one record, so that handlers are functions on it (the
\* one-step history flag reanalyzeFailed starts every step cleared).
Cur ==
  [page |-> page, selectedSessionId |-> selectedSessionId,
   analysisResults |-> analysisResults, isAnalyzing |-> isAnalyzing,
   isFetchingResults |-> isFetchingResults, viewState |-> viewState,
   sessionId |-> sessionId, results |-> results, probes |-> probes,
   showError |-> showError, statusQ |-> statusQ, resultsQ |-> resultsQ,
   creating |-> creating, reanalyzing |-> reanalyzing, origin |-> origin,
   nCompleted |-> nCompleted, nFailed |-> nFailed, statusAsked |-> statusAsked,
   resultsAsked |-> resultsAsked, lifetimes |-> lifetimes, resultsOk |-> resultsOk,
   known |-> known, staleKeys |-> staleKeys, selectedBrand |-> selectedBrand,
   reanalyzeFailed |-> FALSE, overflow |-> FALSE]

\* Slots carry no meaning: the in-flight runs are kept in a fixed order.
SessionNumber(x) == IF x = "s1" THEN 1 ELSE IF x = "s2" THEN 2 ELSE 0

ProbeRank(p) ==
  IF p.stage = "free" THEN 0
  ELSE 1 + (IF p.stage = "status" THEN 1 ELSE 0) + (IF p.cur THEN 2 ELSE 0)
         + 4 * SessionNumber(p.sid)

SortProbes(f) ==
  CHOOSE g \in {[i \in Slots |-> f[pi[i]]] : pi \in Permutations(Slots)} :
    \A i, j \in Slots : i < j => ProbeRank(g[i]) >= ProbeRank(g[j])

Install(n) ==
  /\ ~n.overflow
  /\ n.lifetimes <= budget
  /\ budget' = budget
  /\ page' = n.page
  /\ selectedSessionId' = n.selectedSessionId
  /\ analysisResults' = n.analysisResults
  /\ isAnalyzing' = n.isAnalyzing
  /\ isFetchingResults' = n.isFetchingResults
  /\ viewState' = n.viewState
  /\ sessionId' = n.sessionId
  /\ results' = n.results
  /\ probes' = SortProbes(n.probes)
  /\ showError' = n.showError
  /\ statusQ' = n.statusQ
  /\ resultsQ' = n.resultsQ
  /\ creating' = n.creating
  /\ reanalyzing' = n.reanalyzing
  /\ origin' = n.origin
  /\ nCompleted' = n.nCompleted
  /\ nFailed' = n.nFailed
  /\ statusAsked' = n.statusAsked
  /\ resultsAsked' = n.resultsAsked
  /\ lifetimes' = n.lifetimes
  /\ resultsOk' = n.resultsOk
  /\ known' = n.known
  /\ staleKeys' = n.staleKeys
  /\ reanalyzeFailed' = n.reanalyzeFailed
  /\ selectedBrand' = n.selectedBrand
  /\ table' = table

Bump(n) == IF n < MaxCount THEN n + 1 ELSE n

Min(S) == CHOOSE x \in S : \A y \in S : x <= y

----------------------------------------------------------------------------
\* Views

\* The session id the mounted root component tracks.
CurSid(s) == IF s.page = "App" THEN s.selectedSessionId ELSE s.sessionId

HasSid(s) == CurSid(s) \in SessionIds

\* <AnalysisProgress/> is rendered.
ProgressMounted(s) ==
  IF s.page = "App"
  THEN s.isAnalyzing /\ s.selectedSessionId # Null /\ s.analysisResults = Null
  ELSE s.viewState = "loading"

\* The "Loading historical results..." spinner is rendered (App only).
SpinnerShown(s) == s.page = "App" /\ s.isFetchingResults /\ ~s.isAnalyzing

\* <AnalysisForm/> is rendered.
FormShown(s) ==
  IF s.page = "App"
  THEN ~s.isAnalyzing /\ ~s.isFetchingResults /\ s.analysisResults = Null
  ELSE s.viewState = "form"

\* <AnalysisResults/> is rendered.
ResultsShown(s) ==
  IF s.page = "App"
  THEN s.analysisResults # Null /\ s.selectedSessionId # Null
  ELSE s.viewState = "results" /\ s.results # Null

\* The bundle the results view shows.
StoredResults(s) == IF s.page = "App" THEN s.analysisResults ELSE s.results

----------------------------------------------------------------------------
\* History bookkeeping (no program state)

\* A handler installed a session id (or cleared it): a new lifetime begins and
\* every run already in flight belongs to an earlier one.
NewLifetime(s, how) ==
  [s EXCEPT !.origin = how, !.nCompleted = 0, !.nFailed = 0,
            !.statusAsked = FALSE, !.resultsAsked = FALSE,
            !.lifetimes = @ + 1, !.resultsOk = FALSE,
            !.probes = [i \in Slots |-> IF s.probes[i].stage = "free"
                                        THEN FreeProbe
                                        ELSE [s.probes[i] EXCEPT !.cur = FALSE]]]

NoteCompleted(s) == [s EXCEPT !.nCompleted = Bump(@)]

NoteFailed(s) == [s EXCEPT !.nFailed = Bump(@)]

NoteStatusReq(s, sid) ==
  IF sid = CurSid(s) THEN [s EXCEPT !.statusAsked = TRUE] ELSE s

NoteResultsReq(s, sid) ==
  IF sid = CurSid(s) THEN [s EXCEPT !.resultsAsked = TRUE] ELSE s

----------------------------------------------------------------------------
\* App handlers

App_handleAnalysisStart(s, sid) ==
  [s EXCEPT !.selectedSessionId = sid, !.isAnalyzing = TRUE,
            !.analysisResults = Null, !.isFetchingResults = FALSE]

\* A handleAnalysisSelect that opens a session of another brand as a job
\* still being analysed.
App_handleAnalysisSelect_trustsHint(s, sid, analysis) ==
  [s EXCEPT !.analysisResults = Null,
            !.isAnalyzing = analysis # Null /\ analysis # s.selectedBrand,
            !.selectedSessionId = sid,
            !.selectedBrand = IF analysis # Null /\ analysis # @ THEN analysis ELSE @]

\* analysis stands for analysis.brand_name; Null is a call without the
\* analysis argument, or a list row without a brand name.
App_handleAnalysisSelect(s, sid, analysis) ==
  [s EXCEPT !.analysisResults = Null, !.isAnalyzing = FALSE,
            !.selectedSessionId = sid,
            !.selectedBrand = IF analysis # Null /\ analysis # @ THEN analysis ELSE @]

\* A handleNewAnalysis that forgets to clear the selected session.
App_handleNewAnalysis_keepsSession(s) ==
  [s EXCEPT !.analysisResults = Null, !.isAnalyzing = FALSE,
            !.isFetchingResults = FALSE]

App_handleNewAnalysis(s) ==
  [s EXCEPT !.analysisResults = Null, !.selectedSessionId = Null,
            !.isAnalyzing = FALSE, !.isFetchingResults = FALSE]

handleResultsReady(s, bundle) ==
  [s EXCEPT !.analysisResults = bundle, !.isAnalyzing = FALSE,
            !.isFetchingResults = FALSE]

\* An async function starts: it takes the lowest free slot and issues its
\* results request.
Spawn(s, sid) ==
  LET free == {i \in Slots : s.probes[i].stage = "free"}
  IN IF free = {}
     THEN [s EXCEPT !.overflow = TRUE]
     ELSE NoteResultsReq(
            [s EXCEPT !.probes[Min(free)] =
                        [sid |-> sid, stage |-> "results", cur |-> TRUE]], sid)

Release(s, i) == [s EXCEPT !.probes[i] = FreeProbe]

\* The effect's condition and body: an old session is selected, no new job is
\* being analysed and no results are loaded.
AppEffect(prev, s) ==
  IF /\ s.page = "App"
     /\ \/ prev.selectedSessionId # s.selectedSessionId
        \/ prev.isAnalyzing # s.isAnalyzing
        \/ prev.analysisResults # s.analysisResults
     /\ s.selectedSessionId # Null /\ ~s.isAnalyzing /\ s.analysisResults = Null
  THEN Spawn([s EXCEPT !.isFetchingResults = TRUE], s.selectedSessionId)
  ELSE s

\* finally { setIsFetchingResults(false); setIsAnalyzing(false) }
finallyBlock(s) == [s EXCEPT !.isFetchingResults = FALSE, !.isAnalyzing = FALSE]

\* catch { setAnalysisResults(null) }
catchBlock(s) == [s EXCEPT !.analysisResults = Null]

\* if (statusData.status === 'running') { setIsAnalyzing(true);
\*   setIsFetchingResults(false); return }   -- the finally block still runs
runningBranch(s) == [s EXCEPT !.isAnalyzing = TRUE, !.isFetchingResults = FALSE]

\* const results = await response.json(); setAnalysisResults(results)
loadedBranch(s, sid) == [s EXCEPT !.analysisResults = sid]

\* fetchExistingResults resumes after `await fetch(resultsUrl)`:
\*   r = "ok"     2xx with a JSON body
\*   r = "notok"  a non-2xx response: the status request is issued
\*   r = "throw"  the fetch rejected, or the 2xx body is no JSON
fetchExistingResults_afterResults(s, i, r) ==
  LET p == s.probes[i]
  IN CASE r = "ok" ->
            LET t == finallyBlock(loadedBranch(Release(s, i), p.sid))
            IN IF p.cur THEN [NoteCompleted(t) EXCEPT !.resultsOk = TRUE] ELSE t
       [] r = "notok" ->
            LET t == [s EXCEPT !.probes[i].stage = "status"]
            IN IF p.cur THEN NoteStatusReq(t, p.sid) ELSE t
       [] OTHER -> finallyBlock(catchBlock(Release(s, i)))

\* fetchExistingResults resumes after `await fetch(statusUrl)` and
\* `await statusResponse.json()`: q is the body's status, or "fail" when the
\* fetch rejected or the body is no JSON or carries no known status.
fetchExistingResults_afterStatus(s, i, q) ==
  IF q = "running"
  THEN finallyBlock(runningBranch(Release(s, i)))
  ELSE finallyBlock(catchBlock(Release(s, i)))

----------------------------------------------------------------------------
\* Home handlers

Home_handleAnalysisStart(s, sid) ==
  [s EXCEPT !.sessionId = sid, !.viewState = "loading"]

handleAnalysisComplete(s, bundle) ==
  [s EXCEPT !.results = bundle, !.viewState = "results"]

\* handleRecentAnalysisSelect up to its `await fetch(...)`.
handleRecentAnalysisSelect(s, sid) ==
  Spawn([s EXCEPT !.sessionId = sid, !.viewState = "loading"], sid)

\* handleRecentAnalysisSelect resumes: r = "ok" is a 2xx JSON body, anything
\* else ends in the catch block (toast, back to the form).
handleRecentAnalysisSelect_resume(s, i, r) ==
  LET p == s.probes[i]
  IN IF r = "ok"
     THEN LET t == handleAnalysisComplete(Release(s, i), p.sid)
          IN IF p.cur THEN [NoteCompleted(t) EXCEPT !.resultsOk = TRUE] ELSE t
     ELSE LET t == [Release(s, i) EXCEPT !.viewState = "form"]
          IN IF p.cur THEN NoteFailed(t) ELSE t

Home_handleNewAnalysis(s) ==
  [s EXCEPT !.viewState = "form", !.sessionId = Empty, !.results = Null]

----------------------------------------------------------------------------
\* AnalysisProgress: two cached queries and three effects

\* The status query starts a fetch (first attempt).  A query without data
\* leaves its error state when it fetches; one with data keeps it.
StartStatusFetch(s, sid) ==
  NoteStatusReq(
    [s EXCEPT !.statusQ[sid].attempt = 1,
              !.statusQ[sid].error = IF @ /\ s.statusQ[sid].data # "none"
                                     THEN TRUE ELSE FALSE], sid)

StartResultsFetch(s, sid) ==
  NoteResultsReq(
    [s EXCEPT !.resultsQ[sid].attempt = 1,
              !.resultsQ[sid].error = IF @ /\ s.resultsQ[sid].data # "none"
                                      THEN TRUE ELSE FALSE], sid)

\* enabled: !!sessionId && !showError
StatusEnabled(s) == HasSid(s) /\ ~s.showError

\* A results query that does not wait for the completed status.
ResultsEnabled_ignoresStatus(s) == HasSid(s) /\ ~s.showError

\* enabled: !!sessionId && status?.status === "completed" && !showError
ResultsEnabled(s) ==
  HasSid(s) /\ s.statusQ[CurSid(s)].data = "completed" /\ ~s.showError

\* A status observer whose interval ignores the job's status.
RefetchInterval_ignoresStatus(s) == IF s.showError THEN 0 ELSE 2000

\* refetchInterval: completed or showError ? false : 2000
RefetchInterval(s) ==
  IF s.statusQ[CurSid(s)].data = "completed" \/ s.showError THEN 0 ELSE 2000

\* The component observes the queries of its sessionId prop.
Observed(s, sid) == ProgressMounted(s) /\ CurSid(s) = sid

\* onComplete prop: handleResultsReady in App, handleAnalysisComplete in Home.
onComplete(s, bundle) ==
  NoteCompleted(IF s.page = "App" THEN handleResultsReady(s, bundle)
                ELSE handleAnalysisComplete(s, bundle))

\* useEffect: if (statusError && !showError) { setShowError(true); toast }
statusErrorEffect(s, rendered) ==
  IF rendered.statusQ[CurSid(rendered)].error /\ ~rendered.showError
  THEN NoteFailed([s EXCEPT !.showError = TRUE])
  ELSE s

\* useEffect: if (resultsError && !showError) { setShowError(true); toast }
resultsErrorEffect(s, rendered) ==
  IF rendered.resultsQ[CurSid(rendered)].error /\ ~rendered.showError
  THEN NoteFailed([s EXCEPT !.showError = TRUE])
  ELSE s

\* useEffect: if (results && status?.status === "completed") onComplete(results)
onCompleteEffect(s, rendered) ==
  LET sid == CurSid(rendered)
  IN IF rendered.resultsQ[sid].data # "none" /\ rendered.statusQ[sid].data = "completed"
     THEN onComplete(s, rendered.resultsQ[sid].data)
     ELSE s

\* One render of AnalysisProgress after the state went from prev to s.  An
\* observer fetches when it is subscribed to a query (mount, or a new
\* sessionId) or becomes enabled, and the query holds no data and is idle;
\* cached data is fresh for ever (the client's default staleTime), so only
\* the interval refetches it.  Unmounting drops the component's state; the
\* queries stay in the cache (runs are shorter than gcTime, five minutes).
ProgressRender(prev, s) ==
  IF ~ProgressMounted(s) THEN [s EXCEPT !.showError = FALSE]
  ELSE IF ~HasSid(s) THEN s
  ELSE
    LET sid == CurSid(s)
        same == ProgressMounted(prev) /\ CurSid(prev) = sid
        s1 == IF /\ StatusEnabled(s) /\ ~(same /\ StatusEnabled(prev))
                 /\ s.statusQ[sid].data = "none" /\ s.statusQ[sid].attempt = 0
              THEN StartStatusFetch(s, sid) ELSE s
        s2 == IF /\ ResultsEnabled(s1) /\ ~(same /\ ResultsEnabled(prev))
                 /\ s1.resultsQ[sid].data = "none" /\ s1.resultsQ[sid].attempt = 0
              THEN StartResultsFetch(s1, sid) ELSE s1
    IN onCompleteEffect(resultsErrorEffect(statusErrorEffect(s2, s2), s2), s2)

\* One commit: the effects of every rendered component.
Round(prev, s) == ProgressRender(prev, AppEffect(prev, s))

\* Render until the effects change nothing more.
Render(prev, s) ==
  LET r1 == Round(prev, s)
      r2 == Round(s, r1)
  IN Round(r1, r2)

\* A status query that never lets the stored progress go down.
statusSettled_keepsMax(s, sid, out) ==
  LET q == s.statusQ[sid]
  IN IF out.status = "fail"
     THEN IF Observed(s, sid) /\ q.attempt <= RetryLimit
          THEN NoteStatusReq([s EXCEPT !.statusQ[sid].attempt = q.attempt + 1], sid)
          ELSE [s EXCEPT !.statusQ[sid].attempt = 0, !.statusQ[sid].error = TRUE]
     ELSE [s EXCEPT !.statusQ[sid] =
             [data |-> out.status,
              progress |-> IF out.progress > q.progress THEN out.progress
                           ELSE q.progress,
              error |-> FALSE, attempt |-> 0]]

\* A status fetch settles.  out.status = "fail": the request failed (network, non-2xx
\* or no JSON); the query retries while observers remain and fewer than
\* RetryLimit failures were counted, else it enters its error state.
statusSettled(s, sid, out) ==
  LET q == s.statusQ[sid]
  IN IF out.status = "fail"
     THEN IF Observed(s, sid) /\ q.attempt <= RetryLimit
          THEN NoteStatusReq([s EXCEPT !.statusQ[sid].attempt = q.attempt + 1], sid)
          ELSE [s EXCEPT !.statusQ[sid].attempt = 0, !.statusQ[sid].error = TRUE]
     ELSE LET t == [s EXCEPT !.statusQ[sid] =
                       [data |-> out.status, progress |-> out.progress,
                        error |-> FALSE, attempt |-> 0]]
          IN t

\* A results fetch settles: out = "ok" stores the bundle of sid.
resultsSettled(s, sid, out) ==
  LET q == s.resultsQ[sid]
  IN IF out = "fail"
     THEN IF Observed(s, sid) /\ q.attempt <= RetryLimit
          THEN NoteResultsReq([s EXCEPT !.resultsQ[sid].attempt = q.attempt + 1], sid)
          ELSE [s EXCEPT !.resultsQ[sid].attempt = 0, !.resultsQ[sid].error = TRUE]
     ELSE [s EXCEPT !.resultsQ[sid] =
             [data |-> sid, progress |-> 0, error |-> FALSE, attempt |-> 0]]

\* handleRetry: setShowError(false); both queries are removed from the cache;
\* refetchStatus() fetches the status anew.  (Its later refetchResults() joins
\* the fetch the results observer starts when the status comes back completed.)
handleRetry(s) ==
  LET sid == CurSid(s)
  IN StartStatusFetch([s EXCEPT !.showError = FALSE,
                                !.statusQ[sid] = EmptyQuery,
                                !.resultsQ[sid] = EmptyQuery], sid)

\* The error card with the Retry button is rendered.
ErrorShown(s) ==
  /\ ProgressMounted(s) /\ HasSid(s) /\ s.showError
  /\ s.statusQ[CurSid(s)].error \/ s.resultsQ[CurSid(s)].error

----------------------------------------------------------------------------
\* History and list queries, and their invalidation by the re-analysis

\* Query keys the components register: the two charts of
\* DualVisibilityCharts, the sidebar's list and the form's recent list
\* ("brand", "product", "flag", "sid" stand for the values of the props).
MainHistoryKey == <<"main-visibility-history", "brand", "product", "flag">>

SamePromptsKey == <<"same-prompts-history", "sid">>

SidebarKey == <<"recent-analyses", "brand">>

RecentListKey == <<"/api/recent-analyses">>

RegisteredQueries == {MainHistoryKey, SamePromptsKey, SidebarKey, RecentListKey}

\* Partial matching of a query filter: the filter's key is a prefix of the
\* query's key, element by element.
KeyMatches(filter, key) ==
  /\ Len(filter) <= Len(key)
  /\ \A i \in 1..Len(filter) : filter[i] = key[i]

\* queryClient.invalidateQueries({ queryKey: filter })
invalidateQueries(s, filter) ==
  [s EXCEPT !.staleKeys = @ \cup {k \in RegisteredQueries : KeyMatches(filter, k)}]

\* The keys reanalyzeMutation.onSuccess invalidates.
InvalidatedFilters ==
  <<<<"same-prompts-history">>, <<"recent-analyses">>, <<"visibility-history">>>>

----------------------------------------------------------------------------
\* The three entry points, for whichever root component is mounted

startNew(s, sid) ==
  IF s.page = "App"
  THEN App_handleAnalysisStart(NewLifetime(s, "start"), sid)
  ELSE Home_handleAnalysisStart(NewLifetime(s, "start"), sid)

\* Home's list passes the brand name along, and the form logs it and drops it.
selectExistingWith(s, sid, hint) ==
  IF s.page = "App"
  THEN App_handleAnalysisSelect(NewLifetime(s, "select"), sid, hint)
  ELSE handleRecentAnalysisSelect(NewLifetime(s, "select"), sid)

selectExisting(s, sid) == selectExistingWith(s, sid, Null)

reset(s) ==
  IF s.page = "App"
  THEN App_handleNewAnalysis(NewLifetime(s, "none"))
  ELSE Home_handleNewAnalysis(NewLifetime(s, "none"))

----------------------------------------------------------------------------
\* PromptsTable: search and pagination of the analysed prompts

ITEMS_PER_PAGE == 10

\* Longest response list explored.
MaxRows == 21

MathMin(a, b) == IF a < b THEN a ELSE b

MathMax(a, b) == IF a > b THEN a ELSE b

\* Strings are sequences of characters over a small alphabet.
toLowerCase(str) ==
  [i \in 1..Len(str) |->
     IF str[i] = "A" THEN "a" ELSE IF str[i] = "B" THEN "b" ELSE str[i]]

\* String.prototype.includes
includes(str, term) ==
  \E i \in 1..(Len(str) + 1) :
    /\ i + Len(term) - 1 <= Len(str)
    /\ SubSeq(str, i, i + Len(term) - 1) = term

\* The fields the search reads; a row is a function from the fields it
\* carries to their text (r.field?. is undefined for a missing field).
SearchedFields == {"prompt", "llm_name", "llm_model", "model_name", "response"}

\* The rows response lists are made of.
RowKinds ==
  {[f \in {"prompt", "llm_name"} |->
      IF f = "prompt" THEN <<"A", "b">> ELSE <<"g">>],
   [f \in {"prompt", "response"} |->
      IF f = "prompt" THEN <<"b">> ELSE <<"B", "a">>],
   [f \in {"model_name"} |-> <<"G">>]}

\* A list of n rows: the first m of one kind, the others of another.
ResponseLists ==
  {[i \in 1..n |-> IF i <= m THEN x ELSE y] :
     n \in 0..MaxRows, m \in 0..MaxRows, x \in RowKinds, y \in RowKinds}

\* What the user types in the search box.
SearchTerms == {<<>>, <<"a">>, <<"A", "B">>, <<"b">>, <<"g">>, <<"z">>}

\* The component as mounted: useState(1), useState("").
PromptsTable(list) == [responses |-> list, currentPage |-> 1, searchTerm |-> <<>>]

filteredResponses(t) ==
  IF t.searchTerm = <<>> THEN t.responses
  ELSE LET term == toLowerCase(t.searchTerm)
           test(r) == \E f \in SearchedFields \cap DOMAIN r :
                        includes(toLowerCase(r[f]), term)
       IN SelectSeq(t.responses, test)

\* Math.ceil(filteredResponses.length / ITEMS_PER_PAGE)
totalPages(t) == (Len(filteredResponses(t)) + ITEMS_PER_PAGE - 1) \div ITEMS_PER_PAGE

startIndex(t) == (t.currentPage - 1) * ITEMS_PER_PAGE

endIndex(t) == startIndex(t) + ITEMS_PER_PAGE

\* filteredResponses.slice(startIndex, endIndex)
currentResponses(t) ==
  LET all == filteredResponses(t)
  IN SubSeq(all, MathMin(startIndex(t), Len(all)) + 1, MathMin(endIndex(t), Len(all)))

handlePageChange(t, newPage) ==
  [t EXCEPT !.currentPage = MathMax(1, MathMin(newPage, totalPages(t)))]

\* A search box that keeps the page it is on.
search_onChange_keepsPage(t, value) == [t EXCEPT !.searchTerm = value]

\* onChange of the search box: setSearchTerm(e.target.value); setCurrentPage(1)
search_onChange(t, value) == [t EXCEPT !.searchTerm = value, !.currentPage = 1]

\* The pagination bar is rendered.
PaginationShown(t) == totalPages(t) > 1

\* The Previous button, disabled on page 1.
PreviousPage ==
  /\ PaginationShown(table) /\ table.currentPage # 1
  /\ table' = handlePageChange(table, table.currentPage - 1)
  /\ UNCHANGED appVars

\* The Next button, disabled on the last page.
NextPage ==
  /\ PaginationShown(table) /\ table.currentPage # totalPages(table)
  /\ table' = handlePageChange(table, table.currentPage + 1)
  /\ UNCHANGED appVars

\* The user edits the search term.
SearchEdit(value) ==
  /\ value # table.searchTerm
  /\ table' = search_onChange(table, value)
  /\ UNCHANGED appVars

NextTable ==
  \/ PreviousPage
  \/ NextPage
  \/ \E value \in SearchTerms : SearchEdit(value)

----------------------------------------------------------------------------
\* Initial state and actions

\* The bodies a status request can answer with.  A running job reports any
\* progress value (a later body may carry a lower one); the body of a finished
\* job carries one value.
Snapshots ==
  {b \in [status : Lifecycles, progress : ProgressVals] :
     b.status = "running" \/ b.progress = Min(ProgressVals)}

\* What a status request can come back with: a body, or a failure.
TransportError == [status |-> "fail", progress |-> 0]

StatusOutcomes == Snapshots \cup {TransportError}

\* The state after the root component p is constructed, in a run that may
\* use b lifetimes.
Boot(p, b) ==
  /\ page = p
  /\ budget = b
  /\ selectedSessionId = Null
  /\ analysisResults = Null
  /\ isAnalyzing = FALSE
  /\ isFetchingResults = FALSE
  /\ viewState = "form"
  /\ sessionId = Empty
  /\ results = Null
  /\ probes = [i \in Slots |-> FreeProbe]
  /\ showError = FALSE
  /\ statusQ = [x \in SessionIds |-> EmptyQuery]
  /\ resultsQ = [x \in SessionIds |-> EmptyQuery]
  /\ creating = FALSE
  /\ reanalyzing = FALSE
  /\ origin = "none"
  /\ nCompleted = 0
  /\ nFailed = 0
  /\ statusAsked = FALSE
  /\ resultsAsked = FALSE
  /\ lifetimes = 0
  /\ resultsOk = FALSE
  /\ known = {}
  /\ staleKeys = {}
  /\ reanalyzeFailed = FALSE
  /\ selectedBrand = Null

Init == (\E p \in {"App", "Home"} : Boot(p, MaxLifetimes)) /\ table = PromptsTable(<<>>)

\* App alone, with one lifetime more: its late completions need a session
\* switch, a reset and a request that outlives both.
InitApp == Boot("App", MaxLifetimes + 1) /\ table = PromptsTable(<<>>)

\* The form is submitted: startAnalysisMutation.mutate(data).
SubmitForm ==
  /\ FormShown(Cur) /\ ~creating
  /\ Install([Cur EXCEPT !.creating = TRUE])

\* Session ids are opaque tokens: the first id the client meets is named s1,
\* the next one s2.
IsNextId(sid) ==
  /\ sid \notin known
  /\ \A x \in SessionIds \ known : SessionNumber(sid) <= SessionNumber(x)

\* POST /api/analysis/run answers: onSuccess calls onAnalysisStart(session_id),
\* the id of the session the backend has just created: one the client has
\* not met.
CreateSucceeds(sid) ==
  /\ creating /\ IsNextId(sid)
  /\ Install(Render(Cur, startNew([Cur EXCEPT !.creating = FALSE,
                                              !.known = @ \cup {sid}], sid)))

\* POST /api/analysis/run fails: onError shows a toast.
CreateFails ==
  /\ creating
  /\ Install([Cur EXCEPT !.creating = FALSE])

\* A session is picked: in App from the sidebar (always rendered once a brand
\* is chosen) or the form's recent list, in Home from the form's recent list.
SelectExisting(sid) ==
  /\ sid \in known \/ IsNextId(sid)
  /\ page = "App" \/ FormShown(Cur)
  /\ Install(Render(Cur, selectExisting([Cur EXCEPT !.known = @ \cup {sid}], sid)))

\* The "New Analysis" button of the results view.
NewAnalysis ==
  /\ ResultsShown(Cur)
  /\ Install(Render(Cur, reset(Cur)))

\* reanalyzeMutation.onSuccess: toast; onReanalyzeStart?.(), which is the root
\* component's handleNewAnalysis; then the three invalidations.
reanalyze_onSuccess(s) ==
  invalidateQueries(
    invalidateQueries(
      invalidateQueries(reset(s), InvalidatedFilters[1]),
      InvalidatedFilters[2]),
    InvalidatedFilters[3])

\* The "Re-analyze with Same Prompts" button of the results view.
ClickReanalyze ==
  /\ ResultsShown(Cur) /\ ~reanalyzing
  /\ Install([Cur EXCEPT !.reanalyzing = TRUE])

\* The re-analysis request answers 2xx: onSuccess calls onReanalyzeStart,
\* which is the root component's handleNewAnalysis.  (The id of the session
\* it created is only shown in a toast; the recent lists offer it later.)
ReanalyzeSucceeds ==
  /\ reanalyzing
  /\ Install(Render(Cur, reanalyze_onSuccess([Cur EXCEPT !.reanalyzing = FALSE])))

\* A reanalyzeMutation whose onError also calls onReanalyzeStart.
reanalyze_onError_resets(s) == reset(s)

\* reanalyzeMutation.onError: a toast, nothing else.
reanalyze_onError(s) == s

\* The re-analysis request fails (non-2xx or network error).
ReanalyzeFails ==
  /\ reanalyzing
  /\ Install(Render(Cur, reanalyze_onError([Cur EXCEPT !.reanalyzing = FALSE])))

\* The same step, with the history flag set.
ReanalyzeFailsNoted ==
  /\ reanalyzing
  /\ Install([Render(Cur, reanalyze_onError([Cur EXCEPT !.reanalyzing = FALSE]))
               EXCEPT !.reanalyzeFailed = TRUE])

\* The results request of a historical load settles.
ProbeResultsResponse(i, r) ==
  /\ probes[i].stage = "results"
  /\ Install(Render(Cur, IF page = "App"
                         THEN fetchExistingResults_afterResults(Cur, i, r)
                         ELSE handleRecentAnalysisSelect_resume(Cur, i, r)))

\* The status request of App's historical load settles.
ProbeStatusResponse(i, q) ==
  /\ probes[i].stage = "status"
  /\ Install(Render(Cur, fetchExistingResults_afterStatus(Cur, i, q)))

\* A request of the status query settles.
StatusResponse(sid, out) ==
  /\ statusQ[sid].attempt > 0
  /\ Install(Render(Cur, statusSettled(Cur, sid, out)))

\* A request of the results query settles.
ResultsResponse(sid, out) ==
  /\ resultsQ[sid].attempt > 0
  /\ Install(Render(Cur, resultsSettled(Cur, sid, out)))

\* The refetch interval of the status observer elapses.
Tick ==
  /\ ProgressMounted(Cur) /\ StatusEnabled(Cur) /\ RefetchInterval(Cur) # 0
  /\ statusQ[CurSid(Cur)].attempt = 0
  /\ Install(Render(Cur, StartStatusFetch(Cur, CurSid(Cur))))

\* The "Retry Connection" button of the error card.
Retry ==
  /\ ErrorShown(Cur)
  /\ Install(Render(Cur, handleRetry(Cur)))

\* The brand selector's onBrandSelect: setSelectedBrand.
SelectBrand(b) ==
  /\ page = "App" /\ b # selectedBrand
  /\ Install(Render(Cur, [Cur EXCEPT !.selectedBrand = b]))

\* A row of the form's "recent" tab is clicked: the call carries no analysis.
SelectInFormTab(sid) ==
  /\ sid \in known \/ IsNextId(sid)
  /\ FormShown(Cur)
  /\ Install(Render(Cur, selectExisting([Cur EXCEPT !.known = @ \cup {sid}], sid)))

\* A row of the sidebar is clicked; the sidebar is rendered once a brand is
\* selected, and the row carries the brand name the server listed it with.
SelectInSidebar(sid, hint) ==
  /\ sid \in known \/ IsNextId(sid)
  /\ page = "App" /\ selectedBrand # Null
  /\ Install(Render(Cur, selectExistingWith([Cur EXCEPT !.known = @ \cup {sid}],
                                            sid, hint)))

\* Every step but the selection of an old session and the failure of a
\* re-analysis request.
OtherSteps ==
  \/ SubmitForm
  \/ \E sid \in SessionIds : CreateSucceeds(sid)
  \/ CreateFails
  \/ NewAnalysis
  \/ ClickReanalyze
  \/ ReanalyzeSucceeds
  \/ \E i \in Slots, r \in {"ok", "notok", "throw"} : ProbeResultsResponse(i, r)
  \/ \E i \in Slots, q \in Lifecycles \cup {"fail"} : ProbeStatusResponse(i, q)
  \/ \E sid \in SessionIds, out \in StatusOutcomes : StatusResponse(sid, out)
  \/ \E sid \in SessionIds, out \in {"ok", "fail"} : ResultsResponse(sid, out)
  \/ Tick
  \/ Retry

\* The brand is left out: its only reader is the sidebar's list, so the sidebar
\* counts as rendered and a row as carrying no brand name.
Next ==
  \/ \E sid \in SessionIds : SelectExisting(sid)
  \/ ReanalyzeFails
  \/ OtherSteps

\* The same steps, with the failures of re-analysis requests set down in the
\* history flag.
NextNoted ==
  \/ \E sid \in SessionIds : SelectExisting(sid)
  \/ ReanalyzeFailsNoted
  \/ OtherSteps

\* App with its brand selector and the two places a session is selected from.
NextBrand ==
  \/ \E b \in Brands : SelectBrand(b)
  \/ \E sid \in SessionIds : SelectInFormTab(sid)
  \/ \E sid \in SessionIds, hint \in Brands \cup {Null} : SelectInSidebar(sid, hint)
  \/ ReanalyzeFails
  \/ OtherSteps

Spec == Init /\ [][Next]_vars

SpecApp == InitApp /\ [][Next]_vars

SpecNoted == Init /\ [][NextNoted]_vars

InitBrand == Boot("App", MaxLifetimes) /\ table = PromptsTable(<<>>)

SpecBrand == InitBrand /\ [][NextBrand]_vars

\* The table alone, over a fixed response list.
InitTable == Boot("App", MaxLifetimes) /\ \E list \in ResponseLists : table = PromptsTable(list)

SpecTable == InitTable /\ [][NextTable]_vars

\* Sanity: every reachable state is a committed one (rendering it again
\* changes nothing) and the variables keep their types.
RenderStable == Round(Cur, Cur) = Cur

TypeOK ==
  /\ page \in {"App", "Home"}
  /\ selectedSessionId \in SessionIds \cup {Null}
  /\ analysisResults \in SessionIds \cup {Null}
  /\ viewState \in {"form", "loading", "results"}
  /\ sessionId \in SessionIds \cup {Empty}
  /\ results \in SessionIds \cup {Null}
  /\ \A x \in SessionIds : statusQ[x].attempt \in 0..(RetryLimit + 1)
  /\ \A x \in SessionIds : resultsQ[x].attempt \in 0..(RetryLimit + 1)
  /\ known \subseteq SessionIds
  /\ staleKeys \subseteq RegisteredQueries
  /\ budget \in {MaxLifetimes, MaxLifetimes + 1}
  /\ reanalyzeFailed \in BOOLEAN
  /\ selectedBrand \in Brands \cup {Null}
  /\ table.currentPage \in Nat

----------------------------------------------------------------------------
\* View states of the specification, read off the rendered components

\* Polling: the progress card is rendered (and not its error card).
PollingView(s) == ProgressMounted(s) /\ ~ErrorShown(s)

\* A status poll is scheduled by the refetch interval.
PollScheduled(s) ==
  ProgressMounted(s) /\ StatusEnabled(s) /\ RefetchInterval(s) # 0

\* A historical load of an earlier session id settles in this step.
StaleProbeStep ==
  \E i \in Slots :
    /\ probes[i].stage # "free"
    /\ probes[i].sid # CurSid(Cur)
    /\ \/ \E r \in {"ok", "notok", "throw"} : ProbeResultsResponse(i, r)
       \/ \E q \in Lifecycles \cup {"fail"} : ProbeStatusResponse(i, q)

\* The historical load of the current lifetime gets its bundle in this step.
LoadSucceedsStep(i) ==
  /\ probes[i].stage = "results" /\ probes[i].cur
  /\ ProbeResultsResponse(i, "ok")

\* The status probe of the current lifetime's load settles with q.
StatusProbeStep(i, q) ==
  /\ probes[i].stage = "status" /\ probes[i].cur
  /\ ProbeStatusResponse(i, q)

----------------------------------------------------------------------------
\* Claims

\* C1 (stale discard): when a results or status request of a session id that
\* is no longer the tracked one settles, the view state, the stored results
\* and every flag of the controller stay as they are.
C1_StaleDiscard == [][StaleProbeStep => UNCHANGED ctlVars]_vars

\* C2 (single terminal event): in one session id lifetime the controller
\* delivers at most one terminal notification, completion or failure.
C2_SingleTerminal == nCompleted + nFailed <= 1

\* C3 (resuming a running job): when the results probe of selectExisting(id)
\* failed and its status probe answers running, the view state becomes
\* Polling for id (the progress component is rendered, without error).
C3_ResumeRunning ==
  [][\A i \in Slots : StatusProbeStep(i, "running") => PollingView(Cur)']_vars

\* C4 (bounded retries): after startNew(id), when every status request fails,
\* the status query enters its error state on the failure of the third
\* attempt (never fewer, never more).
C4_ThreeAttempts ==
  [][\A x \in SessionIds :
       (/\ Observed(Cur, x) /\ origin = "start"
        /\ statusQ[x].data = "none" /\ ~statusQ[x].error
        /\ statusQ'[x].error)
       => statusQ[x].attempt = 3]_vars

\* C5 (historical resolution ordering): in a lifetime begun by
\* selectExisting(id) a status request for id is only issued after a results
\* request for id, and never when the results request succeeded.
C5_ResultsBeforeStatus ==
  origin = "select" => /\ statusAsked => resultsAsked
                       /\ resultsOk => ~statusAsked

\* C6 (direct completion): when the results request of selectExisting(id)
\* succeeds, the view state becomes Completed with the returned bundle and no
\* status poll was issued for id since the selection.
C6_DirectCompletion ==
  [][\A i \in Slots :
       LoadSucceedsStep(i)
       => /\ ResultsShown(Cur)' /\ StoredResults(Cur)' = probes[i].sid
          /\ ~statusAsked']_vars

\* C7 (ambiguous resolution): when the results probe of selectExisting(id)
\* failed and the status probe fails or reports completed or error, a failure
\* is reported to the user exactly once and polling is not started.
C7_AmbiguousFails ==
  [][\A i \in Slots, q \in {"completed", "error", "fail"} :
       StatusProbeStep(i, q) => nFailed' = 1 /\ ~ProgressMounted(Cur)']_vars

\* C8 (job error is fatal): while the progress component polls a session
\* whose last accepted status is "error", no further poll is scheduled and
\* the error card is shown.
C8_JobErrorFatal ==
  (ProgressMounted(Cur) /\ HasSid(Cur) /\ statusQ[CurSid(Cur)].data = "error")
  => (ErrorShown(Cur) /\ ~PollScheduled(Cur))

\* The status query of the session the progress component observes accepts a
\* body whose status is "completed".
CompletedAccepted(x) ==
  /\ Observed(Cur, x) /\ statusQ'[x].data = "completed"
  /\ \E p \in ProgressVals :
       StatusResponse(x, [status |-> "completed", progress |-> p])

\* A response of one of the two queries is handled in this step.
QueryStep ==
  \/ \E x \in SessionIds, out \in StatusOutcomes : StatusResponse(x, out)
  \/ \E x \in SessionIds, out \in {"ok", "fail"} : ResultsResponse(x, out)

C10_OwnResults == ResultsShown(Cur) => StoredResults(Cur) = CurSid(Cur)

\* A request of the status query of session x is in flight.
InFlight(x) == statusQ[x].attempt > 0

\* C11 (polling invariant): whenever the progress card is shown for a session
\* whose status is not yet completed (the wait for the result bundle is not
\* counted as polling), a status poll of that session is in flight or
\* scheduled, and no status request of another session is in flight.
C11_OnePoll ==
  PollingView(Cur)
  => /\ HasSid(Cur)
     /\ statusQ[CurSid(Cur)].data # "completed"
        => /\ \A x \in SessionIds \ {CurSid(Cur)} : ~InFlight(x)
           /\ InFlight(CurSid(Cur)) \/ PollScheduled(Cur)

\* C12 (reset cancels in-flight work): from a reset (or the start) until the
\* next startNew or selectExisting no session id is tracked, the form (Idle)
\* is shown and no result bundle is stored, whatever request settles.
C12_ResetStaysIdle ==
  origin = "none"
  => /\ ~HasSid(Cur)
     /\ FormShown(Cur)
     /\ StoredResults(Cur) = Null

\* The controller state: what the root component and the progress component
\* hold, the query cache and the historical loads in flight.
ControllerState(s) ==
  <<s.selectedSessionId, s.analysisResults, s.isAnalyzing, s.isFetchingResults,
    s.viewState, s.sessionId, s.results, s.showError, s.statusQ, s.resultsQ,
    [i \in Slots |-> <<s.probes[i].sid, s.probes[i].stage>>]>>

\* The state after reset() is called and its render is committed.
AfterReset(s) == Render(s, reset(s))

\* C13 (idempotent reset): from every reachable state, reset() leaves no
\* session id, no stored results, the form (Idle) and no poll scheduled, and
\* a second reset() right after it leaves the same controller state.
C13_IdempotentReset ==
  LET once == AfterReset(Cur)
      twice == AfterReset(once)
  IN /\ ~HasSid(once) /\ FormShown(once) /\ StoredResults(once) = Null
     /\ ~PollScheduled(once)
     /\ ControllerState(twice) = ControllerState(once)

\* C13 witness: a reset has acted on a session whose polling or historical
\* load still had a request in flight.
C13_Witness ==
  /\ origin = "none" /\ lifetimes > 0 /\ FormShown(Cur) /\ ~HasSid(Cur)
  /\ \/ \E i \in Slots : probes[i].stage # "free"
     \/ \E x \in SessionIds : InFlight(x)

\* The creation request answers with the new session sid: startNew(sid).
StartNewStep(sid) == creating /\ sid \notin known /\ CreateSucceeds(sid)

\* C14 (startNew): a step that delivers startNew(id) leaves id tracked, the
\* progress card (Polling) shown, no stored result bundle and a status poll
\* of id in flight or scheduled; and in every state that polls id, another
\* startNew(id) would change nothing of the controller state.
C14_StartNew ==
  [][/\ \A sid \in SessionIds :
          StartNewStep(sid)
          => /\ CurSid(Cur)' = sid
             /\ PollingView(Cur)'
             /\ StoredResults(Cur)' = Null
             /\ InFlight(sid)' \/ PollScheduled(Cur)'
     /\ \A sid \in SessionIds :
          (PollingView(Cur) /\ CurSid(Cur) = sid)
          => ControllerState(Render(Cur, startNew(Cur, sid))) = ControllerState(Cur)]_vars

\* What the main area renders.
ViewOf(s) ==
  CASE ResultsShown(s) -> "Completed"
    [] ErrorShown(s) -> "Failed"
    [] ProgressMounted(s) -> "Polling"
    [] SpinnerShown(s) -> "ResolvingHistorical"
    [] FormShown(s) -> "Idle"
    [] OTHER -> "blank"

\* C15 (terminal states are stable): in the results view (Completed) or the
\* error card (Failed), a step that is no startNew, selectExisting or reset
\* (no new lifetime) and no manual retry changes neither the view nor the
\* stored results.
C15_TerminalStable ==
  [][(/\ ViewOf(Cur) \in {"Completed", "Failed"}
      /\ lifetimes' = lifetimes
      /\ ~Retry)
     => /\ ViewOf(Cur)' = ViewOf(Cur)
        /\ StoredResults(Cur)' = StoredResults(Cur)]_vars

\* A request of the tracked session fails for good in this step: the
\* historical load ends in its catch block, or a query of the progress
\* component has used up its retries.
FinalFailureStep ==
  \/ \E i \in Slots :
       /\ probes[i].cur /\ probes[i].sid = CurSid(Cur)
       /\ \/ /\ probes[i].stage = "results"
             /\ \/ ProbeResultsResponse(i, "throw")
                \/ page = "Home" /\ ProbeResultsResponse(i, "notok")
          \/ /\ probes[i].stage = "status"
             /\ ProbeStatusResponse(i, "fail")
  \/ /\ HasSid(Cur) /\ Observed(Cur, CurSid(Cur))
     /\ \/ /\ InFlight(CurSid(Cur)) /\ statusQ'[CurSid(Cur)].error
           /\ StatusResponse(CurSid(Cur), TransportError)
        \/ /\ resultsQ[CurSid(Cur)].attempt > 0 /\ resultsQ'[CurSid(Cur)].error
           /\ ResultsResponse(CurSid(Cur), "fail")

\* C16 (no error is silently dropped): a request of the tracked session that
\* fails for good is reported: a failure toast is shown in that step or the
\* error card is on the screen after it.
C16_NoSilentError ==
  [][FinalFailureStep
     => \/ nFailed' > nFailed \/ nFailed = MaxCount
        \/ ErrorShown(Cur)']_vars

\* The re-analysis request answers 2xx in this step.
ReanalyzeStep == reanalyzing /\ ~reanalyzing' /\ ReanalyzeSucceeds

\* C17 (invalidation on re-analysis): after a successful re-analysis every
\* query the components register for the history, the recent sessions and
\* the visibility series is marked stale.
C17_AllGroupsStale ==
  [][ReanalyzeStep => \A k \in RegisteredQueries : k \in staleKeys']_vars

\* C18 (the notifier leaves the controller alone): a successful re-analysis
\* changes neither the tracked session id, the view, the stored results nor
\* whether a status poll is scheduled.
C18_NotifierFrame ==
  [][ReanalyzeStep
     => /\ CurSid(Cur)' = CurSid(Cur)
        /\ ViewOf(Cur)' = ViewOf(Cur)
        /\ StoredResults(Cur)' = StoredResults(Cur)
        /\ PollScheduled(Cur)' = PollScheduled(Cur)]_vars

\* The failure count of the status query of session x: the failed attempts
\* of the fetch in flight (TanStack Query's fetchFailureCount).
Failures(x) == IF statusQ[x].attempt > 0 THEN statusQ[x].attempt - 1 ELSE 0

\* The session id the mounted AnalysisProgress polls, if there is one.
Tracked(s) == IF ProgressMounted(s) THEN CurSid(s) ELSE Null

\* C19 (failure counter discipline): the count of consecutive transport
\* failures is zero after every successful status response, and it is zero
\* for the newly tracked session id after every change of the tracked id.
C19_CounterDiscipline ==
  [][/\ \A x \in SessionIds : \A out \in Snapshots :
          StatusResponse(x, out) => Failures(x)' = 0
     /\ (Tracked(Cur)' # Tracked(Cur) /\ Tracked(Cur)' # Null)
          => Failures(Tracked(Cur))' = 0]_vars

\* A historical load of the current session id has failed: the id is still
\* held, no load of it is in flight and neither the results, the progress
\* card nor the spinner is shown.
LoadFailed(s) ==
  /\ HasSid(s) /\ s.origin = "select"
  /\ ~ResultsShown(s) /\ ~ProgressMounted(s) /\ ~SpinnerShown(s)
  /\ \A i \in Slots : s.probes[i].stage # "free" => ~s.probes[i].cur

\* The session id whose historical load failed is picked again.
SelectAgainStep(sid) ==
  LoadFailed(Cur) /\ CurSid(Cur) = sid /\ SelectExisting(sid)

\* A historical load of sid is in flight for the current lifetime.
ProbeIssued(s, sid) ==
  \E i \in Slots :
    s.probes[i].stage # "free" /\ s.probes[i].sid = sid /\ s.probes[i].cur

\* C20 (manual retry re-enters the flow): the Retry button of the error card
\* clears the failed state, zeroes the failure count and puts a status
\* request of the same session id in flight; picking the same session id
\* again after a failed historical load issues its load again, with no error
\* card and a zero failure count.
C20_RetryReenters ==
  [][/\ Retry => /\ ~ErrorShown(Cur)'
                 /\ CurSid(Cur)' = CurSid(Cur)
                 /\ Failures(CurSid(Cur))' = 0
                 /\ InFlight(CurSid(Cur))'
     /\ \A sid \in SessionIds :
          SelectAgainStep(sid) => /\ ProbeIssued(Cur, sid)'
                                  /\ ~ErrorShown(Cur)'
                                  /\ Failures(sid)' = 0]_vars

\* C22 (session id frame): the tracked session id changes only in a step of
\* startNew (the creation answers), selectExisting (a session is picked) or
\* reset (the New Analysis button); no other step changes it.
C22_SidFrame ==
  [][CurSid(Cur)' # CurSid(Cur)
       => \/ \E sid \in SessionIds : StartNewStep(sid)
          \/ \E sid \in SessionIds : SelectExisting(sid)
          \/ NewAnalysis]_vars

\* A step in which the service goes on answering "running" for the tracked
\* session x: its status request answers running, its results are not there
\* yet (non-2xx), the interval elapses, or a request of another session
\* settles in any way.
ServiceRunningStep(x) ==
  \/ \E out \in Snapshots : out.status = "running" /\ StatusResponse(x, out)
  \/ Tick
  \/ \E i \in Slots :
       /\ probes[i].sid = x
       /\ ProbeResultsResponse(i, "notok") \/ ProbeStatusResponse(i, "running")
  \/ \E i \in Slots :
       /\ probes[i].stage # "free" /\ probes[i].sid # x
       /\ \/ \E r \in {"ok", "notok", "throw"} : ProbeResultsResponse(i, r)
          \/ \E q \in Lifecycles \cup {"fail"} : ProbeStatusResponse(i, q)
  \/ \E y \in SessionIds \ {x} :
       \/ \E out \in StatusOutcomes : StatusResponse(y, out)
       \/ \E out \in {"ok", "fail"} : ResultsResponse(y, out)

\* C23 (polling continues while the job runs): in Polling with no completed
\* or failed status held, a step in which the service keeps answering
\* running leaves the view in Polling for the same session with a status
\* request in flight or scheduled.
C23_PollingContinues ==
  [][\A x \in SessionIds :
       (/\ PollingView(Cur) /\ CurSid(Cur) = x
        /\ statusQ[x].data \in {"none", "running"}
        /\ ServiceRunningStep(x))
       => /\ PollingView(Cur)' /\ CurSid(Cur)' = x
          /\ InFlight(x)' \/ PollScheduled(Cur)']_vars

\* const progress = status?.progress ?? 0, with status the data of the status
\* query of the sessionId prop.
Displayed(s) ==
  LET q == s.statusQ[CurSid(s)]
  IN IF q.data = "none" THEN 0 ELSE q.progress

\* The status query of the tracked session accepts the body out in this
\* step: its request in flight settles and the cache entry becomes what
\* statusSettled makes of the body.
SnapshotAccepted(x, out) ==
  /\ statusQ[x].attempt > 0 /\ statusQ'[x].attempt = 0
  /\ PollingView(Cur) /\ CurSid(Cur) = x
  /\ statusQ'[x] = statusSettled(Cur, x, out).statusQ[x]

\* C24 (displayed progress follows the last accepted snapshot): while the
\* progress card polls a session, a body accepted for it sets the value shown
\* to the body's progress, lower or not; the value shown changes in no step
\* but such a one or a Retry, so no response of another session, failure or
\* tick changes it; and a newly created session shows 0.
C24_ProgressFollows ==
  [][/\ \A x \in SessionIds :
          (/\ statusQ'[x] # statusQ[x] /\ statusQ'[x].attempt = 0
           /\ statusQ[x].attempt > 0
           /\ CurSid(Cur) = x
           /\ PollingView(Cur) /\ PollingView(Cur)')
            => \A out \in Snapshots :
                 SnapshotAccepted(x, out) => Displayed(Cur)' = out.progress
     /\ \A x \in SessionIds :
          (/\ lifetimes' = lifetimes
           /\ statusQ'[x] # statusQ[x]
           /\ CurSid(Cur) = x /\ CurSid(Cur)' = x
           /\ Displayed(Cur)' # Displayed(Cur)
           /\ PollingView(Cur) /\ PollingView(Cur)')
            => \/ \E out \in Snapshots : SnapshotAccepted(x, out)
               \/ Retry
     /\ (creating /\ ~creating')
          => \A x \in SessionIds :
               (StartNewStep(x) /\ PollingView(Cur)') => Displayed(Cur)' = 0]_vars

\* Polling one session shows its own progress while the cache holds another
\* progress value for the session tracked before.
C24_Witness ==
  /\ PollingView(Cur)
  /\ statusQ[CurSid(Cur)].data = "running"
  /\ \E y \in SessionIds \ {CurSid(Cur)} :
       /\ statusQ[y].data = "running"
       /\ statusQ[y].progress # Displayed(Cur)

\* The results query of session x issues a request in this step (a first
\* attempt or a retry).
ResultsIssued(x) == resultsQ'[x].attempt > resultsQ[x].attempt

\* C25 (results only after completed): the progress component issues a
\* results request for a session only when that session is the one it
\* tracks, its status query holds a completed status and no error is
\* flagged; a Retry issues none.
C25_ResultsAfterCompleted ==
  [][\A x \in SessionIds :
       ResultsIssued(x)
         => /\ Observed(Cur, x)'
            /\ statusQ'[x].data = "completed"
            /\ ~showError'
            /\ ~Retry]_vars

\* A results request is in flight for the tracked session.
C25_Witness ==
  /\ PollingView(Cur)
  /\ resultsQ[CurSid(Cur)].attempt > 0
  /\ statusQ[CurSid(Cur)].data = "completed"

\* How many of App's four main views are rendered.
ViewCount(s) ==
  Cardinality({v \in {"progress", "spinner", "form", "results"} :
     \/ v = "progress" /\ ProgressMounted(s)
     \/ v = "spinner" /\ SpinnerShown(s)
     \/ v = "form" /\ FormShown(s)
     \/ v = "results" /\ ResultsShown(s)})

\* C26 (exactly one main view in App): in every reachable state of App
\* exactly one of the progress card, the spinner, the form and the results
\* is rendered.
C26_OneView == page = "App" => ViewCount(Cur) = 1

\* Runs of fetchExistingResults waiting for their results request.
ResultsProbes(s) == {i \in Slots : s.probes[i].stage = "results"}

\* A run of fetchExistingResults resumes from its results request in this step.
ResultsProbeResumes ==
  \E i \in Slots : \E r \in {"ok", "notok", "throw"} :
    probes[i].stage = "results" /\ ProbeResultsResponse(i, r)

\* The App effect starts a run of fetchExistingResults in this step.
ProbeSpawned ==
  /\ page = "App"
  /\ Cardinality(ResultsProbes(Cur)') >
       Cardinality(ResultsProbes(Cur)) - (IF ResultsProbeResumes THEN 1 ELSE 0)

\* C27 (bounded probing per selection): while a selected session is tracked,
\* a run of fetchExistingResults (one results request, then at most one
\* status request) starts only in the step that selects the session: no later
\* step of the same selection starts another.
C27_BoundedProbing ==
  [][(ProbeSpawned /\ origin' = "select") => lifetimes' # lifetimes]_vars

\* A run of fetchExistingResults for the selected session id is in flight
\* (waiting for its results or its status request).
CurrentProbeInFlight(s) ==
  /\ HasSid(s)
  /\ \E i \in Slots : s.probes[i].stage # "free" /\ s.probes[i].sid = CurSid(s)

\* C28 (historical-loading indicator is accurate): in App, while a results
\* or status probe of the selected session is in flight isFetchingResults is
\* true, the spinner is shown and the form is hidden; when none is in flight
\* isFetchingResults is false.
C28_IndicatorAccurate ==
  page = "App" =>
    IF CurrentProbeInFlight(Cur)
    THEN isFetchingResults /\ SpinnerShown(Cur) /\ ~FormShown(Cur)
    ELSE ~isFetchingResults

\* C29 (failed re-analysis changes nothing): a step in which the re-analysis
\* request fails invalidates no query group, begins no new lifetime (the
\* onReanalyzeStart prop is not called) and leaves the tracked session id,
\* the view, the stored results and the whole controller state as they were.
C29_FailedReanalysisFrame ==
  [][reanalyzeFailed'
       => /\ staleKeys' = staleKeys
          /\ lifetimes' = lifetimes
          /\ CurSid(Cur)' = CurSid(Cur)
          /\ ViewOf(Cur)' = ViewOf(Cur)
          /\ StoredResults(Cur)' = StoredResults(Cur)
          /\ ControllerState(Cur)' = ControllerState(Cur)]_vars

\* A re-analysis request has just failed under the results view it was
\* started from, and no history or list query is stale.
C29_Witness ==
  /\ reanalyzeFailed
  /\ ResultsShown(Cur)
  /\ StoredResults(Cur) # Null
  /\ staleKeys = {}

\* A state without its displayed brand.
Blind(s) == [s EXCEPT !.selectedBrand = Null]

\* Two states that differ in the displayed brand at most.
SameButBrand(a, b) == Blind(a) = Blind(b)

\* The state of a second run, which was given other hints and so displays
\* brand b.
Twin(b) == [Cur EXCEPT !.selectedBrand = b]

\* C21 (the hint does not influence liveness): take the state of a run and
\* that of a second run that differs from it in the displayed brand at most.
\* Selecting the same session in both, with any two hints or none, leaves
\* them equal but for the brand (same session id, view, stored results,
\* requests in flight and cached queries), and the hint decides the brand
\* alone; and every answer of the server, tick, Retry, reset or new job
\* keeps the two runs equal but for the brand.  (The requests compared are
\* those of the session; the sidebar's list is keyed by the displayed brand.)
C21_HintNoInfluence ==
  page = "App" =>
    \A b \in Brands \cup {Null} :
      /\ \A sid \in SessionIds, hint \in Brands \cup {Null} :
           LET one == Render(Cur, selectExisting(Cur, sid))
               two == Render(Twin(b), selectExistingWith(Twin(b), sid, hint))
           IN /\ SameButBrand(one, two)
              /\ ViewOf(one) = ViewOf(two)
              /\ two.selectedBrand = IF hint = Null THEN b ELSE hint
      /\ \A i \in Slots, r \in {"ok", "notok", "throw"} :
           probes[i].stage = "results"
             => SameButBrand(Render(Cur, fetchExistingResults_afterResults(Cur, i, r)),
                             Render(Twin(b), fetchExistingResults_afterResults(Twin(b), i, r)))
      /\ \A i \in Slots, q \in Lifecycles \cup {"fail"} :
           probes[i].stage = "status"
             => SameButBrand(Render(Cur, fetchExistingResults_afterStatus(Cur, i, q)),
                             Render(Twin(b), fetchExistingResults_afterStatus(Twin(b), i, q)))
      /\ \A sid \in SessionIds, out \in StatusOutcomes :
           statusQ[sid].attempt > 0
             => SameButBrand(Render(Cur, statusSettled(Cur, sid, out)),
                             Render(Twin(b), statusSettled(Twin(b), sid, out)))
      /\ \A sid \in SessionIds, out \in {"ok", "fail"} :
           resultsQ[sid].attempt > 0
             => SameButBrand(Render(Cur, resultsSettled(Cur, sid, out)),
                             Render(Twin(b), resultsSettled(Twin(b), sid, out)))
      /\ (ProgressMounted(Cur) /\ HasSid(Cur))
           => SameButBrand(Render(Cur, StartStatusFetch(Cur, CurSid(Cur))),
                           Render(Twin(b), StartStatusFetch(Twin(b), CurSid(Cur))))
      /\ ErrorShown(Cur)
           => SameButBrand(Render(Cur, handleRetry(Cur)),
                           Render(Twin(b), handleRetry(Twin(b))))
      /\ SameButBrand(Render(Cur, reset(Cur)), Render(Twin(b), reset(Twin(b))))
      /\ \A sid \in SessionIds :
           SameButBrand(Render(Cur, startNew(Cur, sid)),
                        Render(Twin(b), startNew(Twin(b), sid)))

\* Two historical loads are in flight after two selections: the form was
\* hidden from the first one on, so the second session was clicked in the
\* sidebar, whose call carries the row and its brand name.
C21_Witness ==
  /\ page = "App" /\ origin = "select" /\ lifetimes = 2
  /\ selectedBrand # Null
  /\ Cardinality({i \in Slots : probes[i].stage # "free"}) = 2
  /\ SpinnerShown(Cur) /\ CurrentProbeInFlight(Cur)

\* The text holds the term somewhere, letter case aside.
HoldsIgnoringCase(text, term) ==
  \E k \in 0..Len(text) :
    /\ k + Len(term) <= Len(text)
    /\ \A j \in 1..Len(term) : toLowerCase(<<text[k + j]>>) = toLowerCase(<<term[j]>>)

\* The row matches the search term in one of the searched fields.
RowMatches(r, term) ==
  \E f \in SearchedFields \cap DOMAIN r : HoldsIgnoringCase(r[f], term)

\* Rows of the list that match the search term.
MatchCount(t) ==
  Cardinality({i \in 1..Len(t.responses) : RowMatches(t.responses[i], t.searchTerm)})

\* The page is in range and shows at most ITEMS_PER_PAGE rows, all matching.
PageInRange(t) ==
  /\ totalPages(t) * ITEMS_PER_PAGE >= MatchCount(t)
  /\ (totalPages(t) - 1) * ITEMS_PER_PAGE < MatchCount(t) \/ MatchCount(t) = 0
  /\ 1 <= t.currentPage
  /\ t.currentPage <= MathMax(1, totalPages(t))
  /\ Len(currentResponses(t)) <= ITEMS_PER_PAGE
  /\ \A i \in 1..Len(currentResponses(t)) :
       RowMatches(currentResponses(t)[i], t.searchTerm)

====
